---- MODULE Spec2Model ----
(***************************************************************************)
(* A model of the ISO 8583 message codec of src/src/iso_msg.rs: IsoMsg     *)
(* (new / from_byte_array, set_field, remove_field, get_field,             *)
(* to_byte_array) over small message specifications and input buffers.     *)
(*                                                                         *)
(* Bytes are the integers 0..255.  A buffer (&[u8], Vec<u8>) is a sequence *)
(* of bytes; Rust's 0-based index k is the TLA+ index k + 1.  A panic      *)
(* (failed assert!, slice or Vec index out of range, unwrap of an Err)     *)
(* ends the run of the program: pc becomes "panicked".                     *)
(* The trace!/dbg! lines of the source only log; logging is taken to be    *)
(* off (the log crate does not evaluate the arguments then).               *)
(***************************************************************************)
EXTENDS Integers, Sequences, FiniteSets, TLC

VARIABLES
    iso_spec,   \* the MessageSpec the message was built against (IsoMsg.iso_spec)
    payload,    \* the source buffer (IsoMsg.payload)
    fields,     \* Vec<FieldPayload>: fields[i + 1] is the slot of position i
    pc,         \* "start" before IsoMsg::new, "ready" after it, "panicked"
    edit,       \* the latest set_field / remove_field call, as the caller made it
    edits,      \* how many set_field / remove_field calls were made
    last        \* the latest call and what it returned

vars == <<iso_spec, payload, fields, pc, edit, edits, last>>

----------------------------------------------------------------------------
(* Bounds of the exploration.                                              *)

\* set_field / remove_field calls explored per message
MaxEdits == 2

----------------------------------------------------------------------------
(* Bytes and text.                                                         *)

IsDigit(c) == c \in 48..57

\* the ASCII code of the uppercase hexadecimal digit of a nibble ({:X})
HexChar(n) == IF n < 10 THEN 48 + n ELSE 55 + n

\* the decimal digits of n, least significant last, at least one digit
RECURSIVE DecDigits(_)
DecDigits(n) == IF n < 10 THEN <<48 + n>> ELSE DecDigits(n \div 10) \o <<48 + (n % 10)>>

RECURSIVE Zeros(_)
Zeros(k) == IF k <= 0 THEN <<>> ELSE <<48>> \o Zeros(k - 1)

\* the decimal digits of n with no padding
FormatUnpadded(n, w) == DecDigits(n)

\* format!("{:0w$}", n, w = w): decimal, zero-padded on the left to at least w
FormatZeroPadded(n, w) == Zeros(w - Len(DecDigits(n))) \o DecDigits(n)

RECURSIVE DigitsValue(_)
DigitsValue(s) ==
    IF s = <<>> THEN 0 ELSE 10 * DigitsValue(SubSeq(s, 1, Len(s) - 1)) + (s[Len(s)] - 48)

\* usize::from_str_radix(s, 10): an optional leading '+', then one or more
\* decimal digits; anything else is an Err
from_str_radix(s) ==
    LET body == IF Len(s) > 0 /\ s[1] = 43 THEN SubSeq(s, 2, Len(s)) ELSE s
    IN  IF body # <<>> /\ \A k \in 1..Len(body) : IsDigit(body[k])
        THEN [ok |-> TRUE, val |-> DigitsValue(body)]
        ELSE [ok |-> FALSE, val |-> 0]

----------------------------------------------------------------------------
(* BitArray<u64, U128> of the bit-array crate: 128 bits, bit k of the      *)
(* array is bit (7 - k mod 8), counted from the least significant, of      *)
(* octet k div 8.                                                          *)

from_elem(b) == [k \in 0..127 |-> b]

\* a decode that takes bit k from bit (k mod 8), least significant first
from_bytes_lsb_first(bytes) ==
    [k \in 0..127 |-> ((bytes[(k \div 8) + 1] \div (2 ^ (k % 8))) % 2) = 1]

from_bytes(bytes) ==
    [k \in 0..127 |-> ((bytes[(k \div 8) + 1] \div (2 ^ (7 - (k % 8)))) % 2) = 1]

BitValue(bits, k, w) == IF bits[k] THEN w ELSE 0

to_bytes(bits) ==
    [j \in 1..16 |->
        BitValue(bits, 8 * (j - 1), 128) + BitValue(bits, 8 * (j - 1) + 1, 64)
      + BitValue(bits, 8 * (j - 1) + 2, 32) + BitValue(bits, 8 * (j - 1) + 3, 16)
      + BitValue(bits, 8 * (j - 1) + 4, 8) + BitValue(bits, 8 * (j - 1) + 5, 4)
      + BitValue(bits, 8 * (j - 1) + 6, 2) + BitValue(bits, 8 * (j - 1) + 7, 1)]

----------------------------------------------------------------------------
(* Message specifications: IsoSpecs::get_handle().  A specification is a   *)
(* record [n, bmp]: n positions 0..n-1, laid out like the AuthSpecs table  *)
(* (position 0 the 4-digit MTI, position 1 the bitmap, position 2 an LLVAR *)
(* field) with the later positions kept short; bmp is the character class  *)
(* of the bitmap field.                                                    *)

FieldSpec(c, l, s) == [char_type |-> c, length |-> l, size_type |-> s]

handle(spec, i) ==
    CASE i = 0 -> FieldSpec("Iso8583_ns", 4, "Fixed")
      [] i = 1 -> FieldSpec(spec.bmp, 16, "BitMap")
      [] i = 2 -> FieldSpec("Iso8583_ns", 19, "LlVar")
      [] i = 3 -> FieldSpec("Iso8583_ns", 2, "Fixed")
      [] i = 4 -> FieldSpec("Iso8583_ans", 2, "LllVar")
      [] i = 5 -> FieldSpec("Iso8583_ans", 2, "LlllVar")
      [] OTHER -> FieldSpec("Iso8583_b", 1, "Fixed")

handle_len(spec) == spec.n

IsBitmapType(c) == c \in {"Iso8583_bmp", "Iso8583_bmps"}

----------------------------------------------------------------------------
(* FieldPayload: one slot.  new_payload is Option<Vec<u8>>.                 *)

None == [some |-> FALSE, v |-> <<>>]
Some(v) == [some |-> TRUE, v |-> v]

FieldPayload_default == [exist |-> FALSE, index |-> 0, len |-> 0, new_payload |-> None]

----------------------------------------------------------------------------
(* The parser.                                                             *)

\* IsoMsg::process_bitmap: one 128-bit array read from the first 16 octets
process_bitmap(bitmap_bytes) == <<from_bytes(SubSeq(bitmap_bytes, 1, 16))>>

\* IsoMsg::get_field_length: the on-wire length of a present field whose
\* bytes start at input_buffer[0]; ok = FALSE where the source panics
\* (prefix past the end of the buffer, prefix that from_str_radix rejects)
get_field_length(iso_field, input_buffer) ==
    LET w == CASE iso_field.size_type = "LlVar" -> 2
               [] iso_field.size_type = "LllVar" -> 3
               [] iso_field.size_type = "LlllVar" -> 4
               [] OTHER -> 0
    IN  IF iso_field.size_type = "Fixed" THEN [ok |-> TRUE, len |-> iso_field.length]
        ELSE IF w = 0 THEN [ok |-> TRUE, len |-> 0]
        ELSE IF Len(input_buffer) < w THEN [ok |-> FALSE, len |-> 0]
        ELSE LET r == from_str_radix(SubSeq(input_buffer, 1, w))
             IN  IF r.ok THEN [ok |-> TRUE, len |-> r.val + w] ELSE [ok |-> FALSE, len |-> 0]

\* the tail input_buffer[from..] of a buffer (from is 0-based, from <= Len)
Tail_from(buf, from) == SubSeq(buf, from + 1, Len(buf))

\* one iteration of the loop of IsoMsg::from_byte_array, for position i
from_byte_array_step(spec, input_buffer, i, st) ==
    LET iso_field == handle(spec, i)
        is_a_bitmap == ~st.found_bitmap /\ IsBitmapType(iso_field.char_type)
    IN  IF is_a_bitmap
        THEN IF Len(input_buffer) < 20
             THEN [st EXCEPT !.panic = TRUE]
             ELSE [st EXCEPT
                     !.found_bitmap = TRUE,
                     !.bitmap_field_index = i,
                     !.bit_arrays = process_bitmap(SubSeq(input_buffer, 5, 20)),
                     !.payload_index = st.payload_index + 12,
                     !.fields = Append(st.fields,
                         [FieldPayload_default EXCEPT
                             !.index = st.payload_index, !.exist = TRUE, !.len = 12])]
        ELSE LET bit == i - st.bitmap_field_index
                 bad_bit == st.found_bitmap /\ bit > 127
                 field_exist == IF st.found_bitmap /\ ~bad_bit
                                THEN st.bit_arrays[1][bit] ELSE TRUE
             IN  IF bad_bit THEN [st EXCEPT !.panic = TRUE]
                 ELSE IF ~field_exist
                 THEN [st EXCEPT !.fields = Append(st.fields, FieldPayload_default)]
                 ELSE IF st.payload_index > Len(input_buffer)
                 THEN [st EXCEPT !.panic = TRUE]
                 ELSE LET r == get_field_length(iso_field,
                                               Tail_from(input_buffer, st.payload_index))
                      IN  IF ~r.ok THEN [st EXCEPT !.panic = TRUE]
                          ELSE [st EXCEPT
                                  !.payload_index = st.payload_index + r.len,
                                  !.fields = Append(st.fields,
                                      [FieldPayload_default EXCEPT
                                          !.index = st.payload_index,
                                          !.len = r.len, !.exist = TRUE])]

RECURSIVE from_byte_array_loop(_, _, _, _)
from_byte_array_loop(spec, input_buffer, i, st) ==
    IF st.panic \/ i >= handle_len(spec) THEN st
    ELSE from_byte_array_loop(spec, input_buffer, i + 1,
                              from_byte_array_step(spec, input_buffer, i, st))

\* IsoMsg::from_byte_array: the slots pushed into `fields`, or panic
from_byte_array(spec, input_buffer) ==
    from_byte_array_loop(spec, input_buffer, 0,
        [payload_index |-> 0, found_bitmap |-> FALSE, bitmap_field_index |-> 0,
         bit_arrays |-> <<>>, fields |-> <<>>, panic |-> FALSE])

----------------------------------------------------------------------------
(* The message: get / set / remove.  `self` is the triple (spec, pl, fs):  *)
(* iso_spec, payload and fields of the IsoMsg.  A call returns a record    *)
(* whose kind is "ok", "err" (an Err(&str) value) or "panic".              *)

Ok_raw(len, prefix, buffer) ==
    [kind |-> "ok", err |-> "", len |-> len, prefix |-> prefix, buffer |-> buffer]
Err_raw(msg, buffer) ==
    [kind |-> "err", err |-> msg, len |-> 0, prefix |-> 0, buffer |-> buffer]
Panic_raw(buffer) ==
    [kind |-> "panic", err |-> "", len |-> 0, prefix |-> 0, buffer |-> buffer]

\* a copy that leaves the last byte of the destination range as it was
copy_all_but_last(buffer, src) ==
    IF src = <<>> THEN buffer
    ELSE SubSeq(src, 1, Len(src) - 1) \o SubSeq(buffer, Len(src), Len(buffer))

\* buffer[..Len(src)].copy_from_slice(src)
copy_to_front(buffer, src) == src \o SubSeq(buffer, Len(src) + 1, Len(buffer))

\* IsoMsg::get_field_length_prefix
get_field_length_prefix(spec, index) ==
    CASE handle(spec, index).size_type = "LlVar" -> 2
      [] handle(spec, index).size_type = "LllVar" -> 3
      [] handle(spec, index).size_type = "LlllVar" -> 4
      [] OTHER -> 0

\* IsoMsg::get_field_raw: the on-wire bytes of slot `index` copied to the
\* front of `buffer`, with (on-wire length, prefix width)
get_field_raw(spec, pl, fs, index, buffer) ==
    IF index >= Len(fs) THEN Panic_raw(buffer)
    ELSE LET field == fs[index + 1]
             m == field.new_payload.v
         IN  IF ~field.exist THEN Err_raw("Field not set", buffer)
             ELSE IF field.new_payload.some
             THEN IF Len(buffer) >= Len(m)
                  THEN Ok_raw(Len(m), get_field_length_prefix(spec, index),
                              copy_to_front(buffer, m))
                  ELSE Err_raw("Input buffer is smaller than field value", buffer)
             ELSE IF field.len = 0 THEN Err_raw("Field not set", buffer)
             ELSE IF Len(buffer) >= field.len /\ Len(pl) >= field.len + field.index
             THEN Ok_raw(field.len, get_field_length_prefix(spec, index),
                         copy_to_front(buffer,
                             SubSeq(pl, field.index + 1, field.index + field.len)))
             ELSE Err_raw("Input buffer is smaller than field value", buffer)

\* a get_field that hands out the on-wire bytes, length prefix included
get_field_on_wire(spec, pl, fs, index, buffer) ==
    LET res == get_field_raw(spec, pl, fs, index, buffer)
    IN  [kind |-> res.kind, err |-> res.err, n |-> res.len, buffer |-> res.buffer]

\* IsoMsg::get_field: get_field_raw, then the prefix is dropped by moving
\* buffer[prefix..len] to the front; returns len - prefix
get_field(spec, pl, fs, index, buffer) ==
    LET res == get_field_raw(spec, pl, fs, index, buffer)
    IN  IF res.kind # "ok" THEN [kind |-> res.kind, err |-> res.err, n |-> 0,
                                 buffer |-> res.buffer]
        ELSE [kind |-> "ok", err |-> "", n |-> res.len - res.prefix,
              buffer |-> IF res.prefix > 0
                         THEN copy_to_front(res.buffer,
                                  SubSeq(res.buffer, res.prefix + 1, res.len))
                         ELSE res.buffer]

\* a set_field that stores the override and leaves the exist flag as it was
set_field_keeps_flag(spec, fs, index, buffer) ==
    IF index >= Len(fs) \/ index >= handle_len(spec) THEN [kind |-> "panic", fields |-> fs]
    ELSE IF Len(buffer) > handle(spec, index).length THEN [kind |-> "panic", fields |-> fs]
    ELSE LET len_prefix == get_field_length_prefix(spec, index)
             v == (IF len_prefix > 0 THEN FormatZeroPadded(Len(buffer), len_prefix)
                   ELSE <<>>) \o buffer
         IN  [kind |-> "ok", fields |-> [fs EXCEPT ![index + 1].new_payload = Some(v)]]

\* IsoMsg::set_field: the new `fields`, or panic where an assert! fails
set_field(spec, fs, index, buffer) ==
    IF index >= Len(fs) \/ index >= handle_len(spec) THEN [kind |-> "panic", fields |-> fs]
    ELSE IF Len(buffer) > handle(spec, index).length THEN [kind |-> "panic", fields |-> fs]
    ELSE LET len_prefix == get_field_length_prefix(spec, index)
             v == (IF len_prefix > 0 THEN FormatZeroPadded(Len(buffer), len_prefix)
                   ELSE <<>>) \o buffer
         IN  [kind |-> "ok",
              fields |-> [fs EXCEPT ![index + 1].new_payload = Some(v),
                                    ![index + 1].exist = TRUE]]

\* a remove_field that spares a slot holding an override
remove_field_parsed_only(spec, fs, index) ==
    IF index >= Len(fs) \/ index >= handle_len(spec) THEN [kind |-> "panic", fields |-> fs]
    ELSE [kind |-> "ok",
          fields |-> [fs EXCEPT ![index + 1].exist =
                         fs[index + 1].exist /\ fs[index + 1].new_payload.some]]

\* a remove_field that also drops the override of the slot
remove_field_drops_override(spec, fs, index) ==
    IF index >= Len(fs) \/ index >= handle_len(spec) THEN [kind |-> "panic", fields |-> fs]
    ELSE [kind |-> "ok", fields |-> [fs EXCEPT ![index + 1].exist = FALSE,
                                               ![index + 1].new_payload = None]]

\* IsoMsg::remove_field
remove_field(spec, fs, index) ==
    IF index >= Len(fs) \/ index >= handle_len(spec) THEN [kind |-> "panic", fields |-> fs]
    ELSE [kind |-> "ok", fields |-> [fs EXCEPT ![index + 1].exist = FALSE]]

----------------------------------------------------------------------------
(* The serializer.                                                         *)

\* BitArray::len
bit_array_len(bits) == Cardinality(DOMAIN bits)

\* IsoMsg::convert_u32_be of four octets; the u32 is kept as its four
\* base-256 digits, most significant first
convert_u32_be(array) == <<array[1], array[2], array[3], array[4]>>

\* format!("{:08X}", u): eight uppercase hexadecimal digits
format_08X(u) ==
    <<HexChar(u[1] \div 16), HexChar(u[1] % 16), HexChar(u[2] \div 16), HexChar(u[2] % 16),
      HexChar(u[3] \div 16), HexChar(u[3] % 16), HexChar(u[4] \div 16), HexChar(u[4] % 16)>>

\* the post-pass on the first bit array: bit 0 is set when the array is
\* longer than 64 bits
announce_secondary(bit_array_item) ==
    IF bit_array_len(bit_array_item) > 64
    THEN [bit_array_item EXCEPT ![0] = TRUE]
    ELSE bit_array_item

\* the text of one bit array: its 16 octets, four at a time, as {:08X}
bitmap_text(bit_array_item) ==
    LET bytes == to_bytes(bit_array_item)
    IN  format_08X(convert_u32_be(SubSeq(bytes, 1, 4)))
     \o format_08X(convert_u32_be(SubSeq(bytes, 5, 8)))
     \o format_08X(convert_u32_be(SubSeq(bytes, 9, 12)))
     \o format_08X(convert_u32_be(SubSeq(bytes, 13, 16)))

\* the bitmap string of the post-pass: the first `take` bit arrays
RECURSIVE bitmap_string(_, _, _)
bitmap_string(bit_arrays, i, take) ==
    IF i >= take \/ i >= Len(bit_arrays) THEN <<>>
    ELSE bitmap_text(IF i = 0 THEN announce_secondary(bit_arrays[i + 1])
                     ELSE bit_arrays[i + 1])
         \o bitmap_string(bit_arrays, i + 1, take)

\* what one iteration of the main loop does with the result of get_field_raw
\* on buffer[buffer_index..]
to_byte_array_step(spec, pl, fs, index, st) ==
    LET is_bitmap == ~st.bitmap_found /\ IsBitmapType(handle(spec, index).char_type)
        res == get_field_raw(spec, pl, fs, index, Tail_from(st.buffer, st.buffer_index))
        written == SubSeq(st.buffer, 1, st.buffer_index) \o res.buffer
        segment == index \div 128
        bit == index - st.bitmap_field_index
    IN  IF is_bitmap
        THEN [st EXCEPT
                !.bit_array_index = segment,
                !.bitmap_field_index = index,
                !.bitmap_found = TRUE,
                !.bit_index = st.buffer_index,
                !.buffer = IF res.kind = "ok" THEN written ELSE st.buffer,
                !.buffer_index = IF res.kind = "ok" THEN st.buffer_index + res.len
                                 ELSE st.buffer_index]
        ELSE IF res.kind # "ok" THEN [st EXCEPT !.bit_array_index = segment]
        ELSE IF st.bitmap_found /\ (segment >= Len(st.bit_arrays) \/ bit > 127)
        THEN [st EXCEPT !.bit_array_index = segment, !.panic = TRUE]
        ELSE [st EXCEPT
                !.bit_array_index = segment,
                !.bit_arrays = IF st.bitmap_found
                               THEN [st.bit_arrays EXCEPT ![segment + 1][bit] = TRUE]
                               ELSE st.bit_arrays,
                !.buffer = written,
                !.buffer_index = st.buffer_index + res.len]

RECURSIVE to_byte_array_loop(_, _, _, _, _)
to_byte_array_loop(spec, pl, fs, index, st) ==
    IF st.panic \/ index >= Len(fs) THEN st
    ELSE to_byte_array_loop(spec, pl, fs, index + 1,
                            to_byte_array_step(spec, pl, fs, index, st))

\* num_iteration bit arrays, all bits clear
RECURSIVE fresh_bit_arrays(_)
fresh_bit_arrays(num_iteration) ==
    IF num_iteration <= 0 THEN <<>>
    ELSE <<from_elem(FALSE)>> \o fresh_bit_arrays(num_iteration - 1)

\* IsoMsg::to_byte_array: the count returned and the buffer as it leaves it
to_byte_array(spec, pl, fs, buffer) ==
    LET num_iteration == (handle_len(spec) - 1 + 63) \div 128
        st == to_byte_array_loop(spec, pl, fs, 0,
                [buffer_index |-> 0, bit_arrays |-> fresh_bit_arrays(num_iteration),
                 bit_array_index |-> 0, bit_index |-> 0, bitmap_field_index |-> 0,
                 bitmap_found |-> FALSE, buffer |-> buffer, panic |-> FALSE])
        bitmap == bitmap_string(st.bit_arrays, 0, st.bit_array_index)
    IN  IF st.panic
        THEN [kind |-> "panic", n |-> 0, buffer |-> st.buffer, bitmap |-> <<>>,
              bit_index |-> st.bit_index]
        ELSE IF Len(bitmap) + st.bit_index > Len(st.buffer)
        THEN [kind |-> "panic", n |-> 0, buffer |-> st.buffer, bitmap |-> bitmap,
              bit_index |-> st.bit_index]
        ELSE [kind |-> "ok", n |-> st.buffer_index,
              buffer |-> SubSeq(st.buffer, 1, st.bit_index) \o bitmap
                         \o SubSeq(st.buffer, st.bit_index + Len(bitmap) + 1, Len(st.buffer)),
              bitmap |-> bitmap, bit_index |-> st.bit_index]

----------------------------------------------------------------------------
(* Inputs: specifications and source buffers.                              *)

\* the message specifications explored: fewer than 66 positions, 66..128
\* positions, and the 129 positions (0..128) of the AuthSpecs table
Specs ==
    { [n |-> 6, bmp |-> "Iso8583_bmps"], [n |-> 66, bmp |-> "Iso8583_bmp"],
      [n |-> 129, bmp |-> "Iso8583_bmps"], [n |-> 129, bmp |-> "Iso8583_bmp"] }

\* bit k of a bitmap stands for position k + 1 (the bitmap is position 1)
PresenceBits(P) == [k \in 0..127 |-> (k + 1) \in P]

\* "0100"
Mti == <<48, 49, 48, 48>>

\* MTI, 32 hexadecimal characters announcing position 3, field 3 = "12"
\* (the layout of the test vector of init_iso_msg_test)
InputHex == Mti \o bitmap_text(PresenceBits({3})) \o <<49, 50>>

\* MTI, 16 bitmap octets announcing position 3, field 3 = "12"
\* (the layout of the payload of parse_file_binary)
InputBinary == Mti \o to_bytes(PresenceBits({3})) \o <<49, 50>>

\* MTI, 12 bitmap octets, and the fields from offset 16 on
InputPacked(P, data) == Mti \o SubSeq(to_bytes(PresenceBits(P)), 1, 12) \o data

\* fields 3, 6, 7 as zero octets
InputZeros == InputPacked({3, 6, 7}, <<0, 0, 0, 0>>)

\* the same with position 128 announced by the last bitmap octet
InputLast == InputPacked({3, 6, 7}, <<0, 0, 0, 1, 57>>)

\* "017", "002AB", "0001Z" in the LLVAR, LLLVAR and LLLLVAR fields
InputVar ==
    InputPacked({2, 4, 5}, <<48, 49, 55, 48, 48, 50, 65, 66, 48, 48, 48, 49, 90,
                             120, 120, 120, 120, 120, 120, 120, 120, 120, 120, 120, 120>>)

\* field 3 and field 65
InputSecondary == InputPacked({1, 3, 65}, <<0, 0, 57, 0, 0, 0, 0>>)

\* an LLVAR prefix "05" with only two bytes after it
InputTruncated == InputPacked({2}, <<48, 53, 65, 66>>)

\* an LLVAR prefix "0X" and an LLVAR prefix "+1", each with two bytes after it
InputMalformed == InputPacked({2}, <<48, 88, 65, 66>>)
InputSigned == InputPacked({2}, <<43, 49, 65, 120>>)

\* eight bytes after the MTI
InputShort == Mti \o <<0, 0, 0, 0, 0, 0, 0, 0>>

\* the source buffers explored with each specification
Inputs(spec) ==
    CASE spec.n = 6 -> {InputHex, InputVar, InputShort}
      [] spec.n = 66 -> {InputBinary, InputVar, InputSecondary, InputTruncated,
                         InputMalformed, InputSigned}
      [] spec.bmp = "Iso8583_bmps" -> {InputHex, InputZeros, InputSecondary, InputLast}
      [] OTHER -> {InputZeros, InputVar}

\* the positions the caller reads: the MTI, the bitmap, the LLVAR, Fixed,
\* LLLVAR and LLLLVAR fields, and the first position out of range
Positions(spec) == {0, 1, 2, 3, 4, 5, spec.n}

\* the positions the caller edits
EditPositions(spec) ==
    CASE spec.n = 6 -> {0, 4, 5, spec.n}
      [] spec.n = 66 -> {2, 3, 65}
      [] OTHER -> {2, 3}

\* "7", "12345678901"
Payloads == { <<55>>, <<49, 50, 51, 52, 53, 54, 55, 56, 57, 48, 49>> }

\* sizes of the destination buffer handed to get_field and to_byte_array
GetDstLens == {0, 1, 16}
EmitDstLens == {17, 48}
Fills == {0, 35}

Blank(len, fill) == [k \in 1..len |-> fill]

----------------------------------------------------------------------------
(* The state machine.                                                      *)

\* `edit` records the latest edit as the caller made it: the call, whether
\* the slot was present and held an override when it was made, and the edit
\* made before it
NoEdit == [op |-> "none", index |-> 0, p |-> <<>>, was_exist |-> FALSE,
           had_override |-> FALSE, before_op |-> "none", before_index |-> 0]

Edit(op, index, p) ==
    [op |-> op, index |-> index, p |-> p,
     was_exist |-> index < Len(fields) /\ fields[index + 1].exist,
     had_override |-> index < Len(fields) /\ fields[index + 1].new_payload.some,
     before_op |-> edit.op, before_index |-> edit.index]

\* `last` records the latest call (op, index, arg), the call made before it
\* (after), and what the call returned: kind ("ok", "err", "panic"), the
\* error text, the count and the destination buffer as the call left it
NoResult ==
    [op |-> "none", index |-> 0, arg |-> <<>>, after |-> "none", kind |-> "ok",
     err |-> "", n |-> 0, out |-> <<>>, bitmap |-> <<>>, bit_index |-> 0]

Result(op, index, arg, kind, err, n, out) ==
    [op |-> op, index |-> index, arg |-> arg, after |-> last.op, kind |-> kind,
     err |-> err, n |-> n, out |-> out, bitmap |-> <<>>, bit_index |-> 0]

Init ==
    /\ iso_spec \in Specs
    /\ payload \in Inputs(iso_spec)
    /\ fields = <<>>
    /\ pc = "start"
    /\ edit = NoEdit
    /\ edits = 0
    /\ last = NoResult

\* A caller makes its edits first and reads afterwards: set_field and
\* remove_field follow new or another edit.  The reads take &self and leave
\* the message as it is, so an edit after a read finds the message that the
\* same edit finds before it.
Editing == pc = "ready" /\ last.op \in {"new", "set_field", "remove_field"}

\* IsoMsg::new(iso_spec, payload)
New ==
    /\ pc = "start"
    /\ LET st == from_byte_array(iso_spec, payload)
       IN  /\ pc' = IF st.panic THEN "panicked" ELSE "ready"
           /\ fields' = IF st.panic THEN <<>> ELSE st.fields
           /\ last' = Result("new", 0, <<>>, IF st.panic THEN "panic" ELSE "ok", "",
                             st.payload_index, <<>>)
    /\ UNCHANGED <<iso_spec, payload, edit, edits>>

\* iso_msg.set_field(index, buffer)
SetField(index, buffer) ==
    /\ Editing
    /\ edits < MaxEdits
    /\ LET r == set_field(iso_spec, fields, index, buffer)
       IN  /\ fields' = r.fields
           /\ pc' = IF r.kind = "panic" THEN "panicked" ELSE "ready"
           /\ last' = Result("set_field", index, buffer, r.kind, "", 0, <<>>)
    /\ edit' = Edit("set_field", index, buffer)
    /\ edits' = edits + 1
    /\ UNCHANGED <<iso_spec, payload>>

\* iso_msg.remove_field(index)
RemoveField(index) ==
    /\ Editing
    /\ edits < MaxEdits
    /\ LET r == remove_field(iso_spec, fields, index)
       IN  /\ fields' = r.fields
           /\ pc' = IF r.kind = "panic" THEN "panicked" ELSE "ready"
           /\ last' = Result("remove_field", index, <<>>, r.kind, "", 0, <<>>)
    /\ edit' = Edit("remove_field", index, <<>>)
    /\ edits' = edits + 1
    /\ UNCHANGED <<iso_spec, payload>>

\* iso_msg.get_field(index, &mut buffer) with a zeroed buffer of dst_len bytes
GetField(index, dst_len) ==
    /\ Editing
    /\ LET r == get_field(iso_spec, payload, fields, index, Blank(dst_len, 0))
       IN  /\ pc' = IF r.kind = "panic" THEN "panicked" ELSE "ready"
           /\ last' = Result("get_field", index, dst_len, r.kind, r.err, r.n, r.buffer)
    /\ UNCHANGED <<iso_spec, payload, fields, edit, edits>>

\* iso_msg.to_byte_array(&mut buffer) with a buffer of dst_len bytes `fill`.
\* The call takes &self and leaves the message as it is, so the caller is
\* followed through two calls in a row, the second into a buffer of the
\* size of the first.
ToByteArray(dst_len, fill) ==
    /\ pc = "ready"
    /\ last.op # "get_field"
    /\ last.op = "to_byte_array" => (last.after # "to_byte_array" /\ Len(last.out) = dst_len)
    /\ LET r == to_byte_array(iso_spec, payload, fields, Blank(dst_len, fill))
       IN  /\ pc' = IF r.kind = "panic" THEN "panicked" ELSE "ready"
           /\ last' = [Result("to_byte_array", 0, fill, r.kind, "", r.n, r.buffer)
                         EXCEPT !.bitmap = r.bitmap, !.bit_index = r.bit_index]
    /\ UNCHANGED <<iso_spec, payload, fields, edit, edits>>

Next ==
    \/ New
    \/ \E index \in EditPositions(iso_spec), buffer \in Payloads : SetField(index, buffer)
    \/ \E index \in EditPositions(iso_spec) : RemoveField(index)
    \/ \E index \in Positions(iso_spec), dst_len \in GetDstLens : GetField(index, dst_len)
    \/ \E dst_len \in EmitDstLens, fill \in Fills : ToByteArray(dst_len, fill)

Spec == Init /\ [][Next]_vars

----------------------------------------------------------------------------
(* IsoMsg::process_bitmap called on its own, as parse_bitmap_binary does.  *)

\* the octets of parse_bitmap_binary
BitmapTestOctets == <<128, 0, 1, 0, 0, 1, 0, 0, 2, 0, 0, 0, 0, 0, 0, 0>>

\* 16 octets, all `rest` but octet j (0-based), which is `octet`
OctetAt(j, octet, rest) == [i \in 1..16 |-> IF i = j + 1 THEN octet ELSE rest]

\* the 16-octet inputs explored: the test's octets, one bit set, one bit
\* clear, one octet of mixed bits
BitmapInputs ==
    {BitmapTestOctets}
      \cup {OctetAt(j, 2 ^ b, 0) : j \in 0..15, b \in 0..7}
      \cup {OctetAt(j, 255 - 2 ^ b, 255) : j \in 0..15, b \in 0..7}
      \cup {OctetAt(j, 165, 0) : j \in 0..15}

InitBitmap ==
    /\ iso_spec \in {s \in Specs : s.n = 129 /\ s.bmp = "Iso8583_bmps"}
    /\ payload \in BitmapInputs
    /\ fields = <<>>
    /\ pc = "bitmap"
    /\ edit = NoEdit
    /\ edits = 0
    /\ last = NoResult

\* let bit_arrays = IsoMsg::process_bitmap(bitmap)
ProcessBitmap ==
    /\ pc = "bitmap"
    /\ pc' = "done"
    /\ last' = [NoResult EXCEPT !.op = "process_bitmap", !.after = last.op,
                                !.out = process_bitmap(payload)]
    /\ UNCHANGED <<iso_spec, payload, fields, edit, edits>>

NextBitmap == ProcessBitmap

SpecBitmap == InitBitmap /\ [][NextBitmap]_vars

----------------------------------------------------------------------------
(* Vocabulary of the properties.                                           *)

Slot(i) == fields[i + 1]
InRange(i) == i < Len(fields)

\* the position of the bitmap field of a specification
BitmapPosition(spec) ==
    CHOOSE i \in 0..(spec.n - 1) :
        /\ IsBitmapType(handle(spec, i).char_type)
        /\ \A j \in 0..(i - 1) : ~IsBitmapType(handle(spec, j).char_type)

\* the width of the length prefix of a size discipline
PrefixWidth(size_type) ==
    CASE size_type = "LlVar" -> 2 [] size_type = "LllVar" -> 3
      [] size_type = "LlllVar" -> 4 [] OTHER -> 0

PrefixOf(i) == PrefixWidth(handle(iso_spec, i).size_type)

\* the on-wire bytes of a present slot: its override, else its source slice
HasSource(slot) == slot.len > 0 /\ slot.index + slot.len <= Len(payload)
Readable(slot) == slot.new_payload.some \/ HasSource(slot)
OnWireLen(slot) == IF slot.new_payload.some THEN Len(slot.new_payload.v) ELSE slot.len
OnWire(slot) ==
    IF slot.new_payload.some THEN slot.new_payload.v
    ELSE SubSeq(payload, slot.index + 1, slot.index + slot.len)

\* the value of a hexadecimal character, -1 for any other byte
HexVal(c) == IF c \in 48..57 THEN c - 48 ELSE IF c \in 65..70 THEN c - 55 ELSE 0 - 1

\* the bitmap that a buffer carries at offset off (0-based) under a bitmap
\* character class: 16 octets for the binary class, 32 hexadecimal
\* characters for the ASCII-hex class; ok = FALSE where there is none
DecodeBitmap(buf, off, class) ==
    IF class = "Iso8583_bmp"
    THEN IF Len(buf) < off + 16 THEN [ok |-> FALSE, bits |-> from_elem(FALSE)]
         ELSE [ok |-> TRUE, bits |-> from_bytes(SubSeq(buf, off + 1, off + 16))]
    ELSE IF Len(buf) < off + 32 \/ \E k \in 1..32 : HexVal(buf[off + k]) < 0
         THEN [ok |-> FALSE, bits |-> from_elem(FALSE)]
         ELSE [ok |-> TRUE,
               bits |-> [k \in 0..127 |->
                   ((HexVal(buf[off + (k \div 4) + 1]) \div (2 ^ (3 - (k % 4)))) % 2) = 1]]

Emitted == last.op = "to_byte_array" /\ last.kind = "ok"
Image == SubSeq(last.out, 1, last.n)
EmittedBitmap ==
    DecodeBitmap(last.out, last.bit_index, handle(iso_spec, BitmapPosition(iso_spec)).char_type)

----------------------------------------------------------------------------
(* C1.  Round-trip identity: a buffer that parses, emitted with no edit in *)
(* between, comes back as the bytes B[0..n] where n is the count that      *)
(* to_byte_array returns.                                                  *)
C1_RoundTrip ==
    (Emitted /\ edits = 0) =>
        /\ last.n <= Len(payload)
        /\ Image = SubSeq(payload, 1, last.n)

(* C2.  Get-after-set: set_field(i, p) with len(p) <= max_length, then     *)
(* get_field(i, dst) with dst large enough for the field, writes p into    *)
(* dst[0..len(p)] and returns len(p).                                      *)
C2_SetThenGet ==
    /\ last.op = "get_field"
    /\ edit.op = "set_field"
    /\ edit.index = last.index
    /\ InRange(last.index)
    /\ Len(edit.p) <= handle(iso_spec, last.index).length

C2_GetAfterSet ==
    (C2_SetThenGet /\ last.arg >= Len(edit.p) + PrefixOf(last.index)) =>
        /\ last.kind = "ok"
        /\ last.n = Len(edit.p)
        /\ SubSeq(last.out, 1, last.n) = edit.p

\* reached: an LLLVAR or LLLLVAR field removed, set again and read back
C2_Witness ==
    /\ C2_SetThenGet
    /\ last.kind = "ok"
    /\ PrefixOf(last.index) >= 3
    /\ ~edit.was_exist
    /\ edit.before_op = "remove_field"
    /\ edit.before_index = edit.index

(* C3.  Remove then get: remove_field(i) then get_field(i, dst) returns    *)
(* "Field not set", also for a slot that holds an override and whatever    *)
(* the size of dst.                                                        *)
C3_RemoveThenGet ==
    (/\ last.op = "get_field"
     /\ edit.op = "remove_field"
     /\ edit.index = last.index
     /\ InRange(last.index)) =>
        /\ last.kind = "err"
        /\ last.err = "Field not set"

\* reached: a slot holding an override is removed and read with dst of 0 bytes
C3_Witness ==
    /\ last.op = "get_field"
    /\ edit.op = "remove_field"
    /\ edit.index = last.index
    /\ edit.had_override
    /\ edit.was_exist
    /\ last.arg = 0
    /\ last.err = "Field not set"

(* C4.  Bitmap consistency: in the emitted image, bit (k - bitmap          *)
(* position) of the bitmap is set iff slot k exists, for every k other     *)
(* than the MTI and the bitmap position.                                   *)
C4_BitmapConsistency ==
    Emitted =>
        /\ EmittedBitmap.ok
        /\ \A k \in 1..(iso_spec.n - 1) :
              k # BitmapPosition(iso_spec) /\ k > BitmapPosition(iso_spec) =>
                 (EmittedBitmap.bits[k - BitmapPosition(iso_spec)] <=> Slot(k).exist)

(* C5.  Bitmap extension: in an image that carries a rewritten bitmap,     *)
(* some position > 64 exists => bit 0 is set and 128 bits are emitted;     *)
(* otherwise bit 0 is clear and only 64 bits are emitted.                  *)
SomeSecondary == \E k \in 65..(iso_spec.n - 1) : Slot(k).exist
BitmapBitsWritten == 4 * Len(last.bitmap)
BitZeroWritten == HexVal(last.bitmap[1]) >= 8

C5_BitmapExtension ==
    (Emitted /\ last.bitmap # <<>>) =>
        /\ SomeSecondary => (BitZeroWritten /\ BitmapBitsWritten = 128)
        /\ ~SomeSecondary => (~BitZeroWritten /\ BitmapBitsWritten = 64)

(* C6.  Idempotent emit: to_byte_array called again with no edit in        *)
(* between returns the same count and writes the same bytes (the image and *)
(* the bitmap text), whatever the destination held, and leaves the slots   *)
(* and the source buffer unchanged.                                        *)
C6_IdempotentEmit ==
    [][(/\ last.op = "to_byte_array" /\ last.kind = "ok" /\ last'.op = "to_byte_array"
        /\ Len(last'.out) = Len(last.out)) =>
          /\ last'.kind = "ok"
          /\ last'.n = last.n
          /\ SubSeq(last'.out, 1, last'.n) = SubSeq(last.out, 1, last.n)
          /\ last'.bit_index = last.bit_index
          /\ last'.bitmap = last.bitmap
          /\ SubSeq(last'.out, last'.bit_index + 1, last'.bit_index + Len(last'.bitmap))
               = last'.bitmap
          /\ fields' = fields
          /\ payload' = payload]_vars

\* reached: a second call after edits, over a destination filled differently
C6_Witness ==
    /\ Emitted
    /\ last.after = "to_byte_array"
    /\ edits > 0
    /\ last.n > 0
    /\ last.arg # 0

(* C7.  Parse presence: after parse every position before the bitmap is    *)
(* present, and a position i after it is present iff bit (i - bitmap       *)
(* position) of the bitmap the input carries at the bitmap's place is set. *)
CarriedBitmap ==
    DecodeBitmap(payload, Slot(BitmapPosition(iso_spec)).index,
                 handle(iso_spec, BitmapPosition(iso_spec)).char_type)

C7_ParsePresence ==
    (last.op = "new" /\ pc = "ready" /\ CarriedBitmap.ok) =>
        \A i \in 0..(iso_spec.n - 1) :
            /\ i < BitmapPosition(iso_spec) => Slot(i).exist
            /\ i > BitmapPosition(iso_spec) =>
                  (Slot(i).exist <=> CarriedBitmap.bits[i - BitmapPosition(iso_spec)])

(* C8.  get_field returns the logical payload, never the length prefix:    *)
(* for a present field it writes the on-wire bytes that follow the 2/3/4   *)
(* digit prefix (all of them for a Fixed field) and returns their count.   *)
C8_PresentGet == last.op = "get_field" /\ InRange(last.index) /\ Slot(last.index).exist

C9_LogicalLen == OnWireLen(Slot(last.index)) - PrefixOf(last.index)

C9_DstThreshold ==
    (C8_PresentGet /\ Readable(Slot(last.index)) /\ C9_LogicalLen > 0) =>
        /\ last.arg < C9_LogicalLen =>
              (last.kind = "err" /\ last.err = "Input buffer is smaller than field value")
        /\ last.arg >= C9_LogicalLen => last.kind = "ok"

(* C10.  set_field with len(payload) > max_length returns an error value   *)
(* (it does not abort) and leaves every slot unchanged.                    *)
C10_PayloadTooLong ==
    [][(/\ pc = "ready"
        /\ last'.op = "set_field"
        /\ InRange(last'.index)
        /\ Len(last'.arg) > handle(iso_spec, last'.index).length) =>
          /\ last'.kind = "err"
          /\ pc' = "ready"
          /\ fields' = fields]_vars

(* C11.  A call of get_field, set_field or remove_field on a position      *)
(* i >= field_count() returns an error value: it does not abort.           *)
C11_OutOfRange ==
    (/\ last.op \in {"get_field", "set_field", "remove_field"}
     /\ last.index >= handle_len(iso_spec)) =>
        /\ last.kind = "err"
        /\ pc = "ready"

(* C12.  Truncated input: parse never hands back a Message one of whose    *)
(* present slots extends past the end of the buffer it was parsed from.    *)
C12_NoSlotPastBuffer ==
    (last.op = "new" /\ pc = "ready") =>
        \A i \in 0..(Len(fields) - 1) :
            Slot(i).exist => Slot(i).index + Slot(i).len <= Len(payload)

(* C13.  Malformed length prefix: parse hands back no Message in which a   *)
(* present LL/LLL/LLLL field was parsed from a prefix whose 2/3/4 bytes    *)
(* are not all ASCII decimal digits.                                       *)
C13_ParsedPrefix(i) ==
    /\ Slot(i).exist
    /\ PrefixOf(i) > 0
    /\ Slot(i).index + PrefixOf(i) <= Len(payload)

C13_DigitsOnly ==
    (last.op = "new" /\ pc = "ready") =>
        \A i \in 0..(Len(fields) - 1) :
            C13_ParsedPrefix(i) =>
                \A k \in 1..PrefixOf(i) : IsDigit(payload[Slot(i).index + k])

(* C14.  to_byte_array never returns normally when the destination buffer  *)
(* is smaller than the wire image of the message: the on-wire bytes of     *)
(* every present field that has bytes to emit.                             *)
\* the on-wire bytes of positions lo..hi, in ascending position order
RECURSIVE WireRange(_, _)
WireRange(lo, hi) ==
    IF lo > hi THEN <<>>
    ELSE IF lo = hi
    THEN (IF Slot(lo).exist /\ Readable(Slot(lo)) THEN OnWire(Slot(lo)) ELSE <<>>)
    ELSE WireRange(lo, (lo + hi) \div 2) \o WireRange((lo + hi) \div 2 + 1, hi)

WireImage == WireRange(0, Len(fields) - 1)
WireLen == Len(WireImage)

C14_SmallDestination == ~(Emitted /\ Len(last.out) < WireLen)

(* C15.  Emitted image after edits: given room for it, to_byte_array       *)
(* writes in ascending position order the on-wire bytes of every present   *)
(* field, the override when the slot has one and otherwise its slice of    *)
(* the source buffer; outside the bytes of the bitmap field the image is   *)
(* exactly that concatenation, so untouched fields come back byte for byte *)
(* and removed fields contribute nothing.                                  *)
InBitmapField(k) ==
    /\ k > last.bit_index
    /\ k <= last.bit_index + OnWireLen(Slot(BitmapPosition(iso_spec)))

C15_FieldsEmitted ==
    (Emitted /\ Len(last.out) >= WireLen) =>
        LET image == WireImage
        IN  /\ last.n = Len(image)
            /\ \A k \in 1..last.n : ~InBitmapField(k) => last.out[k] = image[k]

(* C16.  set_field(i, payload) with len(payload) <= max_length stores as   *)
(* slot i's override the length of the payload as 2/3/4 zero-padded        *)
(* decimal digits for LlVar/LllVar/LlllVar followed by the payload, the    *)
(* payload alone for a Fixed field, and sets exists.                       *)
C16_LengthDigits(len, w) == [j \in 1..w |-> 48 + ((len \div (10 ^ (w - j))) % 10)]

C17_OverrideExists ==
    pc = "ready" =>
        \A i \in 0..(Len(fields) - 1) : Slot(i).new_payload.some => Slot(i).exist

(* C17, amended.  A slot holds an override without exists only through     *)
(* remove_field on that slot: set_field leaves the slot with its override  *)
(* and exists, remove_field clears exists and keeps the override, and no   *)
(* other call changes either.                                              *)
C17_OverrideKept(f) == f.new_payload.some /\ ~f.exist

C17_OnlyRemoveClears ==
    [][pc' = "ready" =>
         \A i \in 0..(Len(fields') - 1) :
             C17_OverrideKept(fields'[i + 1]) =>
                \/ last'.op = "remove_field" /\ last'.index = i
                \/ i < Len(fields) /\ fields[i + 1] = fields'[i + 1]]_vars

\* reached: a slot set and then removed holds its override without exists
C17_Witness ==
    /\ pc = "ready"
    /\ edit.op = "remove_field"
    /\ edit.had_override
    /\ InRange(edit.index)
    /\ C17_OverrideKept(Slot(edit.index))

(* C18.  Slot invariant: a slot with exists and no override lies within    *)
(* the source buffer, so get_field on it with a dst that has room for the  *)
(* slot's bytes returns them rather than an error.                         *)
C18_ParsedSlotRead ==
    /\ last.op = "get_field"
    /\ InRange(last.index)
    /\ Slot(last.index).exist
    /\ ~Slot(last.index).new_payload.some
    /\ Slot(last.index).len > 0
    /\ last.arg >= Slot(last.index).len

C18_SlotWithinSource ==
    C18_ParsedSlotRead =>
        /\ Slot(last.index).index + Slot(last.index).len <= Len(payload)
        /\ last.kind = "ok"

(* C19.  remove_field(i) changes only the exists flag of slot i (its       *)
(* override, offset and length stay, as do the other slots and the source  *)
(* buffer), and a later to_byte_array emits no bytes for field i;          *)
(* set_field(i, p) changes only the exists flag and the override of slot i.*)
C19_OthersKept(i) ==
    /\ payload' = payload
    /\ Len(fields') = Len(fields)
    /\ \A j \in 0..(Len(fields) - 1) : j # i => fields'[j + 1] = fields[j + 1]

C19_RemoveStep ==
    (pc = "ready" /\ last'.op = "remove_field" /\ last'.kind = "ok") =>
        /\ C19_OthersKept(last'.index)
        /\ fields'[last'.index + 1] = [fields[last'.index + 1] EXCEPT !.exist = FALSE]

C19_SetStep ==
    (pc = "ready" /\ last'.op = "set_field" /\ last'.kind = "ok") =>
        /\ C19_OthersKept(last'.index)
        /\ fields'[last'.index + 1].index = fields[last'.index + 1].index
        /\ fields'[last'.index + 1].len = fields[last'.index + 1].len

\* an image written after remove_field, with room for it, is as long as
\* the on-wire bytes of the slots that still exist
C19_RemovedNotEmitted ==
    (/\ Emitted
     /\ edit.op = "remove_field"
     /\ InRange(edit.index)
     /\ Len(last.out) >= WireLen) =>
        /\ ~Slot(edit.index).exist
        /\ last.n = WireLen

C19_EditsOneSlot ==
    /\ [][C19_RemoveStep /\ C19_SetStep]_vars
    /\ []C19_RemovedNotEmitted

\* reached: an image written after the removal of a parsed slot that held
\* bytes and an override
C19_Witness ==
    /\ Emitted
    /\ edit.op = "remove_field"
    /\ edit.was_exist
    /\ edit.had_override
    /\ Slot(edit.index).new_payload.some
    /\ Slot(edit.index).len > 0
    /\ Len(last.out) >= WireLen
    /\ last.n > 16

(* C20.  After parse the bitmap slot has exists, its offset is the cursor  *)
(* at the bitmap position, its length is the wire width of the bitmap (16  *)
(* octets for the binary class, 32 characters for the ASCII-hex class),    *)
(* and every present field after it starts at or after offset + width.     *)
BitmapWireWidth(class) == IF class = "Iso8583_bmp" THEN 16 ELSE 32

C20_BitmapSlot ==
    (last.op = "new" /\ pc = "ready") =>
        LET bp == BitmapPosition(iso_spec)
            width == BitmapWireWidth(handle(iso_spec, bp).char_type)
        IN  /\ Slot(bp).exist
            /\ Slot(bp).index = Slot(bp - 1).index + Slot(bp - 1).len
            /\ Slot(bp).len = width
            /\ \A i \in (bp + 1)..(Len(fields) - 1) :
                  Slot(i).exist => Slot(i).index >= Slot(bp).index + width

(* C21.  The bitmap's wire encoding follows the character class of the     *)
(* bitmap field in both directions: the serializer writes 16 raw octets    *)
(* for the binary class and 32 uppercase hexadecimal characters for the    *)
(* ASCII-hex class, and under the ASCII-hex class the parser takes         *)
(* presence from the hexadecimal characters at the cursor.                 *)
BitmapClass == handle(iso_spec, BitmapPosition(iso_spec)).char_type

C21_SerializerEncoding ==
    (Emitted /\ last.bitmap # <<>>) =>
        /\ Len(last.bitmap) = BitmapWireWidth(BitmapClass)
        /\ BitmapClass = "Iso8583_bmps" =>
              \A k \in 1..Len(last.bitmap) : HexVal(last.bitmap[k]) >= 0

C21_ParserEncoding ==
    (/\ last.op = "new"
     /\ pc = "ready"
     /\ BitmapClass = "Iso8583_bmps"
     /\ CarriedBitmap.ok) =>
        \A i \in (BitmapPosition(iso_spec) + 1)..(Len(fields) - 1) :
            Slot(i).exist <=> CarriedBitmap.bits[i - BitmapPosition(iso_spec)]

C21_ClassSelectsEncoding == C21_SerializerEncoding /\ C21_ParserEncoding

(* C22.  Re-parse after edits: after set_field / remove_field calls on     *)
(* data-element positions, parsing the image that to_byte_array wrote      *)
(* against the same spec gives a message with the same present positions   *)
(* and, for each present position, the same on-wire bytes (hence the same  *)
(* logical payload from get_field).                                        *)
C22_DataElementEdits ==
    /\ edit.op # "none" => edit.index > BitmapPosition(iso_spec)
    /\ edit.before_op # "none" => edit.before_index > BitmapPosition(iso_spec)

C22_SameSlot(again, i) ==
    /\ again.exist = Slot(i).exist
    /\ (Slot(i).exist /\ Readable(Slot(i))) =>
          /\ again.index + again.len <= Len(Image)
          /\ SubSeq(Image, again.index + 1, again.index + again.len) = OnWire(Slot(i))

\* every present slot has bytes to emit, and those parsed from the source
\* have a prefix of decimal digits
C22_SoundSlots ==
    \A i \in 0..(Len(fields) - 1) :
        Slot(i).exist =>
            /\ Readable(Slot(i))
            /\ (~Slot(i).new_payload.some /\ PrefixOf(i) > 0) =>
                  \A k \in 1..PrefixOf(i) : IsDigit(payload[Slot(i).index + k])

C22_Reparse ==
    (/\ Emitted
     /\ edits \in 1..2
     /\ C22_DataElementEdits
     /\ C22_SoundSlots
     /\ Len(last.out) >= WireLen) =>
        LET again == from_byte_array(iso_spec, Image)
        IN  /\ ~again.panic
            /\ Len(again.fields) = Len(fields)
            /\ \A i \in 0..(Len(fields) - 1) : C22_SameSlot(again.fields[i + 1], i)

(* C23.  Bit ordering of process_bitmap: for a 16-octet input it returns   *)
(* one 128-bit array in which the bits 8j .. 8j+7 are the bits of octet j, *)
(* most significant first (ISO bit 1 is the most significant bit of the    *)
(* first octet); the octets of parse_bitmap_binary give exactly the bits   *)
(* 0, 23, 47 and 70.                                                       *)
C23_OctetOf(bits, j) ==
    (IF bits[8 * j] THEN 128 ELSE 0) + (IF bits[8 * j + 1] THEN 64 ELSE 0)
  + (IF bits[8 * j + 2] THEN 32 ELSE 0) + (IF bits[8 * j + 3] THEN 16 ELSE 0)
  + (IF bits[8 * j + 4] THEN 8 ELSE 0) + (IF bits[8 * j + 5] THEN 4 ELSE 0)
  + (IF bits[8 * j + 6] THEN 2 ELSE 0) + (IF bits[8 * j + 7] THEN 1 ELSE 0)

C23_BitsSet(bits) == {k \in 0..127 : bits[k]}

C23_BitOrdering ==
    last.op = "process_bitmap" =>
        /\ Len(last.out) = 1
        /\ DOMAIN last.out[1] = 0..127
        /\ \A j \in 0..15 : C23_OctetOf(last.out[1], j) = payload[j + 1]
        /\ payload = BitmapTestOctets => C23_BitsSet(last.out[1]) = {0, 23, 47, 70}

\* reached: the octets of parse_bitmap_binary decoded to bits 0, 23, 47, 70
C23_Witness ==
    /\ last.op = "process_bitmap"
    /\ payload = BitmapTestOctets
    /\ last.out[1][0] /\ last.out[1][23] /\ last.out[1][47] /\ last.out[1][70]
    /\ Cardinality(C23_BitsSet(last.out[1])) = 4

(* C24.  In to_byte_array the bitmap text written in the post-pass         *)
(* occupies exactly the bytes the main pass reserved for the bitmap field: *)
(* its length is the on-wire length the cursor skipped at the bitmap       *)
(* position, every byte of an emitted field is still the byte the main     *)
(* pass wrote, and the returned count is the reserved width plus the       *)
(* on-wire lengths of the emitted fields.                                  *)
\* the bytes the output cursor skipped at the bitmap position
C24_Reserved ==
    LET slot == Slot(BitmapPosition(iso_spec))
    IN  IF slot.exist /\ Readable(slot) THEN OnWireLen(slot) ELSE 0

\* the on-wire lengths of the emitted fields other than the bitmap field
C24_FieldsLen ==
    LET b == BitmapPosition(iso_spec)
    IN  Len(WireRange(0, b - 1)) + Len(WireRange(b + 1, Len(fields) - 1))

C24_BitmapInReservedBytes ==
    (Emitted /\ last.bitmap # <<>> /\ Len(last.out) >= WireLen) =>
        LET image == WireImage
        IN  /\ Len(last.bitmap) = C24_Reserved
            /\ last.n = C24_Reserved + C24_FieldsLen
            /\ \A k \in 1..last.n :
                  (k <= last.bit_index \/ k > last.bit_index + C24_Reserved)
                      => last.out[k] = image[k]

(* C25.  to_byte_array never indexes a bitmap segment it did not allocate: *)
(* every position it marks after the bitmap field lies in a segment        *)
(* index / 128 below the (field_count - 1 + 63) / 128 segments allocated,  *)
(* so a call with room for the image and the bitmap text returns; a        *)
(* message with position 128 present and a spec of fewer than 66           *)
(* positions are cases of it.                                              *)
\* the positions the main pass marks in the bitmap segments
C25_Marked ==
    {i \in 0..(Len(fields) - 1) :
        /\ i > BitmapPosition(iso_spec)
        /\ Slot(i).exist
        /\ Readable(Slot(i))}

C25_Allocated == (handle_len(iso_spec) - 1 + 63) \div 128

C25_SegmentAllocated ==
    (last.op = "to_byte_array" /\ Len(last.out) >= WireLen + 32 * C25_Allocated) =>
        /\ \A i \in C25_Marked : i \div 128 < C25_Allocated
        /\ last.kind # "panic"

====
